---- MODULE Spec2Model ----
(***************************************************************************)
(* Model of the iTHOR task samplers (ObjectNavTaskSampler and              *)
(* ObjectManipTaskSampler) of plugins/ithor_plugin/ithor_task_samplers.py: *)
(* scene rotation, task budget, lazy environment construction and the      *)
(* reset-or-reuse decision.                                                *)
(***************************************************************************)
EXTENDS Integers, Sequences, FiniteSets, TLC

VARIABLES kind, scenes, scene_period, reset_tasks, object_types, seed,
          scene_counter, scene_order, scene_id, max_tasks,
          env, last_sampled_task, last, hist,
          class_attrs, instance_attrs, assigned, twin

vars == <<kind, scenes, scene_period, reset_tasks, object_types, seed,
          scene_counter, scene_order, scene_id, max_tasks,
          env, last_sampled_task, last, hist,
          class_attrs, instance_attrs, assigned, twin>>

config == <<kind, scenes, scene_period, reset_tasks, object_types, seed>>

\* an ExperimentConfig class, one instance of it and the last assignment
experiment == <<class_attrs, instance_attrs, assigned>>

(***************************************************************************)
(* Bounds of the model.                                                    *)
(***************************************************************************)
MaxScenes == 2
MaxTasks == 2
MaxPeriod == 2
MaxCalls == 5

(***************************************************************************)
(* Values.  An Optional[int] is a record, so that None is not a number.    *)
(* A scene name is a sequence of tokens, so that str.replace can act on    *)
(* it.  A scene_period is a typed Python value.                            *)
(***************************************************************************)
NoneInt == [isNone |-> TRUE, v |-> 0]
SomeInt(n) == [isNone |-> FALSE, v |-> n]

BaseNames == <<"FloorPlan1", "FloorPlan2", "FloorPlan3", "FloorPlan4">>
PhysicsSuffix == "_physics"

\* the i-th scene of the pool: FloorPlan1, FloorPlan1_physics, FloorPlan2, ...
SceneName(i) ==
  IF i % 2 = 1 THEN <<BaseNames[(i + 1) \div 2]>>
  ELSE <<BaseNames[i \div 2], PhysicsSuffix>>

ScenesOfLen(n) == [i \in 1..n |-> SceneName(i)]

NonePeriod == [type |-> "none", num |-> 0, str |-> ""]
StrPeriod(s) == [type |-> "str", num |-> 0, str |-> s]
IntPeriod(n) == [type |-> "int", num |-> n, str |-> ""]
FloatPeriod(n) == [type |-> "float", num |-> n, str |-> ""]

PeriodValues ==
  {NonePeriod, StrPeriod("manual"), StrPeriod("every")}
    \cup {IntPeriod(n) : n \in 1..MaxPeriod}
    \cup {FloatPeriod(n) : n \in 0..1}

\* scene_period != "manual" / == "manual"
IsManual(p) == p.type = "str" /\ p.str = "manual"
\* scene_period is None
IsNonePeriod(p) == p.type = "none"
\* isinstance(scene_period, int)
IsInt(p) == p.type = "int"
\* mutant: the scene is left one task early
CounterEqualsPeriodEarly(c, p) ==
  p.type \in {"int", "float"} /\ p.num = c + 1

\* mutant: the scene is left one task late
CounterEqualsPeriodLate(c, p) ==
  p.type \in {"int", "float"} /\ p.num = c - 1

\* scene_counter == scene_period: Python compares numbers by value
CounterEqualsPeriod(c, p) == p.type \in {"int", "float"} /\ p.num = c

\* all orders random.shuffle can leave in a list of the indices 0..n-1
Perms(n) ==
  {o \in [1..n -> 0..(n - 1)] : \A i, j \in 1..n : o[i] = o[j] => i = j}

Shuffle(order) == Perms(Len(order))

NoTask == [id |-> -1, kind |-> "none"]
NoObject == "none"
NoEnv ==
  [exists |-> FALSE, id |-> 0, scene_name |-> <<>>, stopped |-> FALSE,
   hand |-> NoObject, objects_in_hand |-> <<>>]
NoScene == <<>>

(***************************************************************************)
(* length and the budget check of next_task                                *)
(***************************************************************************)
length == IF max_tasks.isNone THEN [inf |-> TRUE, v |-> 0]
          ELSE [inf |-> FALSE, v |-> max_tasks.v]

\* mutant: the budget check lets one more call through
BudgetExhaustedOffByOne(mt) == ~mt.isNone /\ mt.v < 0

BudgetExhausted(mt) == ~mt.isNone /\ mt.v <= 0

\* mutant: None is counted down like a number
DecrementBudgetFromNone(mt) ==
  IF mt.isNone THEN SomeInt(MaxTasks - 1) ELSE SomeInt(mt.v - 1)

DecrementBudget(mt) == IF mt.isNone THEN mt ELSE SomeInt(mt.v - 1)

(***************************************************************************)
(* sample_scene                                                            *)
(***************************************************************************)
\* mutant: the wrap is tested before the slot is advanced
ForceAdvanceStaleWrap(sid, order, force) ==
  IF force
  THEN LET n == (1 + sid) % Len(scenes)
       IN  {[id |-> n, order |-> o, shuffles |-> IF sid = 0 THEN 1 ELSE 0,
             warned |-> ~IsManual(scene_period)] :
              o \in IF sid = 0 THEN Shuffle(order) ELSE {order}}
  ELSE {[id |-> sid, order |-> order, shuffles |-> 0, warned |-> FALSE]}

\* mutant: a forced advance is only warned about unless under "manual"
ForceAdvanceManualOnly(sid, order, force) ==
  IF force /\ IsManual(scene_period)
  THEN LET n == (1 + sid) % Len(scenes)
       IN  {[id |-> n, order |-> o, shuffles |-> IF n = 0 THEN 1 ELSE 0,
             warned |-> FALSE] :
              o \in IF n = 0 THEN Shuffle(order) ELSE {order}}
  ELSE {[id |-> sid, order |-> order, shuffles |-> 0, warned |-> force]}

\* if force_advance_scene: advance one slot, shuffle on wrapping to 0
ForceAdvance(sid, order, force) ==
  IF force
  THEN LET n == (1 + sid) % Len(scenes)
       IN  {[id |-> n, order |-> o, shuffles |-> IF n = 0 THEN 1 ELSE 0,
             warned |-> ~IsManual(scene_period)] :
              o \in IF n = 0 THEN Shuffle(order) ELSE {order}}
  ELSE {[id |-> sid, order |-> order, shuffles |-> 0, warned |-> FALSE]}

\* the if/elif chain on scene_period
ApplyPolicy(a, counter) ==
  IF IsNonePeriod(scene_period)
  THEN {[raised |-> FALSE, id |-> i, order |-> a.order, counter |-> counter,
         shuffles |-> a.shuffles] : i \in 0..(Len(scenes) - 1)}
  ELSE IF IsManual(scene_period)
  THEN {[raised |-> FALSE, id |-> a.id, order |-> a.order,
         counter |-> counter, shuffles |-> a.shuffles]}
  ELSE IF CounterEqualsPeriod(counter, scene_period)
  THEN IF a.id = Len(a.order) - 1
       THEN {[raised |-> FALSE, id |-> 0, order |-> o, counter |-> 1,
              shuffles |-> a.shuffles + 1] : o \in Shuffle(a.order)}
       ELSE {[raised |-> FALSE, id |-> a.id + 1, order |-> a.order,
              counter |-> 1, shuffles |-> a.shuffles]}
  ELSE IF IsInt(scene_period)
  THEN {[raised |-> FALSE, id |-> a.id, order |-> a.order,
         counter |-> counter + 1, shuffles |-> a.shuffles]}
  ELSE {[raised |-> TRUE, id |-> a.id, order |-> a.order,
         counter |-> counter, shuffles |-> a.shuffles]}

\* self.scenes[int(self.scene_order[self.scene_id])]
SceneAt(order, sid) == scenes[order[sid + 1] + 1]

\* mutant: under "manual" the call returns before the budget is counted down
SampleSceneManualFree(force) ==
  UNION {
    {[raised |-> p.raised, warned |-> a.warned, id |-> p.id,
      order |-> p.order, counter |-> p.counter, shuffles |-> p.shuffles,
      max_tasks |-> IF p.raised \/ IsManual(scene_period) THEN max_tasks
                    ELSE DecrementBudget(max_tasks),
      scene |-> IF p.raised THEN NoScene ELSE SceneAt(p.order, p.id)] :
        p \in ApplyPolicy(a, scene_counter)} :
    a \in ForceAdvance(scene_id, scene_order, force)}

\* the outcomes of one sample_scene(force) call in the current state
SampleScene(force) ==
  UNION {
    {[raised |-> p.raised, warned |-> a.warned, id |-> p.id,
      order |-> p.order, counter |-> p.counter, shuffles |-> p.shuffles,
      max_tasks |-> IF p.raised THEN max_tasks
                    ELSE DecrementBudget(max_tasks),
      scene |-> IF p.raised THEN NoScene ELSE SceneAt(p.order, p.id)] :
        p \in ApplyPolicy(a, scene_counter)} :
    a \in ForceAdvance(scene_id, scene_order, force)}

(***************************************************************************)
(* The environment (IThorEnvironment / IThorArmEnvironment)                *)
(***************************************************************************)
\* str.replace("_physics", "")
RemovePhysics(name) == SelectSeq(name, LAMBDA t : t # PhysicsSuffix)

\* the scene name the simulator reports after loading a scene
ReportedName(scene) == RemovePhysics(scene) \o <<PhysicsSuffix>>

DefaultSceneName == <<"FloorPlan28", PhysicsSuffix>>

CreateEnvironment ==
  [exists |-> TRUE, id |-> hist.envsBuilt + 1,
   scene_name |-> DefaultSceneName, stopped |-> FALSE,
   hand |-> NoObject, objects_in_hand |-> <<>>]

EnvReset(e, scene) == [e EXCEPT !.scene_name = ReportedName(scene)]

\* mutant: the scene names are compared as they are
NeedsResetRawNames(k, scene, e) ==
  IF k = "nav" THEN scene # e.scene_name ELSE TRUE

\* the condition under which next_task resets an existing environment
NeedsReset(k, scene, e) ==
  IF k = "nav"
  THEN RemovePhysics(scene) # RemovePhysics(e.scene_name)
  ELSE TRUE

\* the environment calls of next_task after the scene is loaded
SetupCalls(k) ==
  IF k = "nav"
  THEN <<"randomize_agent_location">>
  ELSE <<"randomize_arm_pose", "step_DropMidLevelHand",
         "randomize_reachable_agent_location_given_object",
         "get_current_arm_coordinate">>

\* mutant: an environment is constructed for every task
EnsureEnvironmentAlwaysNew(k, e, scene) ==
  {[env |-> EnvReset(CreateEnvironment, scene),
    log |-> <<"construct", "reset">>, failed |-> FALSE, built |-> 1],
   [env |-> CreateEnvironment, log |-> <<"construct", "reset">>,
    failed |-> TRUE, built |-> 1],
   [env |-> e, log |-> <<"construct">>, failed |-> TRUE, built |-> 0]}

\* if self.env is not None: ... else: ...   with the failures of the simulator
EnsureEnvironment(k, e, scene) ==
  IF e.exists
  THEN IF NeedsReset(k, scene, e)
       THEN {[env |-> EnvReset(e, scene), log |-> <<"reset">>,
              failed |-> FALSE, built |-> 0],
             [env |-> e, log |-> <<"reset">>, failed |-> TRUE, built |-> 0]}
       ELSE {[env |-> e, log |-> <<>>, failed |-> FALSE, built |-> 0]}
  ELSE {[env |-> EnvReset(CreateEnvironment, scene),
          log |-> <<"construct", "reset">>, failed |-> FALSE, built |-> 1],
         [env |-> CreateEnvironment, log |-> <<"construct", "reset">>,
          failed |-> TRUE, built |-> 1],
         [env |-> e, log |-> <<"construct">>, failed |-> TRUE, built |-> 0]}

(***************************************************************************)
(* The task built by next_task: the environment calls after the scene is   *)
(* loaded and the task_info dictionary.  A value returned by the           *)
(* environment is named by the call that returned it and by the place of   *)
(* that call among the environment calls of this next_task.                *)
(***************************************************************************)
\* the object types of the scene the simulator has loaded
\* (o["objectType"] for o in env.last_event.metadata["objects"])
SceneObjectTypes(name) ==
  LET room == RemovePhysics(name)
  IN  IF room = <<BaseNames[1]>> THEN {"Apple", "Mug"}
      ELSE IF room = <<BaseNames[2]>> THEN {"Tomato"}
      ELSE IF room = <<BaseNames[3]>> THEN {"Mug"}
      ELSE {}

\* random.sample(self.object_types, len(self.object_types)): any order
RandomSample(types) ==
  {[i \in 1..Len(types) |-> types[p[i] + 1]] : p \in Perms(Len(types))}

\* mutant: the first type of the order is taken, in the scene or not
FirstPresentUnchecked(order, present) ==
  IF order = <<>> THEN <<>> ELSE [object_type |-> Head(order)]

\* for ot in ...: if ot in object_types_in_scene: task_info[...] = ot; break
RECURSIVE FirstPresent(_, _)
FirstPresent(order, present) ==
  IF order = <<>> THEN <<>>
  ELSE IF Head(order) \in present THEN [object_type |-> Head(order)]
  ELSE FirstPresent(Tail(order), present)

\* the value a call of the log returned
Returned(log, call) ==
  [call |-> call, at |-> CHOOSE i \in 1..Len(log) : log[i] = call]

\* mutant: the arm pose of the randomization is kept for the task
StartPosesFirstArmPose(k, log) ==
  IF k = "nav"
  THEN [start_pose |-> Returned(log, "randomize_agent_location")]
  ELSE [start_pose |->
          Returned(log, "randomize_reachable_agent_location_given_object"),
        start_arm_pose |-> Returned(log, "randomize_arm_pose")]

\* task_info["start_pose"], task_info["start_arm_pose"]
StartPoses(k, log) ==
  IF k = "nav"
  THEN [start_pose |-> Returned(log, "randomize_agent_location")]
  ELSE [start_pose |->
          Returned(log, "randomize_reachable_agent_location_given_object"),
        start_arm_pose |-> Returned(log, "get_current_arm_coordinate")]

\* the task_info dictionaries next_task can build in environment e
TaskInfo(k, e, log) ==
  {FirstPresent(order, SceneObjectTypes(e.scene_name)) @@ StartPoses(k, log) :
     order \in RandomSample(object_types)}

\* the simulator's step(action='DropMidLevelHand'): the hand lets go
DropMidLevelHand(e) == [e EXCEPT !.hand = NoObject]

\* mutant: the list of held objects is not emptied
AfterSetupKeepsList(k, e) ==
  IF k = "manip" THEN DropMidLevelHand(e) ELSE e

\* the environment after the calls of SetupCalls; the manipulation sampler
\* has the hand drop what it holds and empties env._objects_in_hand
AfterSetup(k, e) ==
  IF k = "manip"
  THEN [DropMidLevelHand(e) EXCEPT !.objects_in_hand = <<>>]
  ELSE e

(***************************************************************************)
(* What the last call did (last) and the history of the calls (hist):      *)
(* since the last reset(), samples counts the sample_scene calls, tasks    *)
(* the tasks returned, forced the forced advances and used the uses of     *)
(* each scene since the last shuffle; passed, everTask and envsBuilt are   *)
(* kept over the sampler's life.                                           *)
(***************************************************************************)
ZeroUse == [i \in 1..Len(scenes) |-> 0]

\* forced advances are counted one by one under "manual", where the caller
\* drives the rotation with them; otherwise only whether there was one
ForcedHorizon == IF IsManual(scene_period) THEN MaxCalls ELSE 1

CountForced(n, force) ==
  IF force /\ n < ForcedHorizon THEN n + 1 ELSE n

\* use counts of the scenes since the last shuffle, kept for the periodic
\* rotation (an integer scene_period) while no advance was forced
CountUse(h, force, r) ==
  LET base == IF r.shuffles > 0 THEN ZeroUse ELSE h.used
      i == r.order[r.id + 1] + 1
  IN  IF r.raised \/ ~IsInt(scene_period) \/ force \/ h.forced > 0
      THEN ZeroUse
      ELSE [base EXCEPT ![i] = @ + 1]

AfterSample(h, force, r) ==
  [h EXCEPT !.samples = @ + 1,
            !.forced = CountForced(@, force),
            !.used = CountUse(h, force, r)]

Quiet(op, force) ==
  [op |-> op, force |-> force, raised |-> "none", warned |-> FALSE,
   shuffles |-> 0, scene |-> NoScene, ret |-> NoTask, envLog |-> <<>>,
   task_info |-> <<>>, noTarget |-> FALSE, dropped |-> NoObject]

\* the task object next_task builds; a new object is not the last one
NewTask ==
  [id |-> IF last_sampled_task.id = 0 THEN 1 ELSE 0, kind |-> kind]

\* mutant: the task is stored before the environment is ready
SampledTaskStoredEarly(failed) == NewTask

\* mutant: the task is returned without being stored
SampledTaskNotStored(failed) == last_sampled_task

\* self._last_sampled_task after a call that sampled a scene: the new task
\* is stored unless the simulator raised before it was built
SampledTask(failed) == IF failed THEN last_sampled_task ELSE NewTask

(***************************************************************************)
(* ExperimentConfig classes (core/base_abstractions/experiment_config.py): *)
(* the metaclass FrozenClassVariables decides the assignments to a class.  *)
(* An attribute name is the sequence of its characters, so that            *)
(* str.startswith can act on it.                                           *)
(***************************************************************************)
AbstractMethods ==
  <<"_", "_", "a", "b", "s", "t", "r", "a", "c", "t", "m", "e", "t", "h", "o", "d", "s", "_", "_">>
AbcPrefix == <<"_", "a", "b", "c", "_">>

AttrNames ==
  {AbstractMethods,
   <<"_", "a", "b", "c", "_", "i", "m", "p", "l">>,
   <<"_", "a", "b", "c">>,
   <<"l", "r">>,
   <<"_", "l", "r", "_", "a", "b", "c", "_">>}

AttrValues == {"declared", "assigned"}
Unset == "unset"

\* attr.startswith(prefix)
StartsWith(attr, prefix) ==
  Len(attr) >= Len(prefix) /\ SubSeq(attr, 1, Len(prefix)) = prefix

\* mutant: the two exemptions are joined by "or"
FrozenEitherTest(attr) ==
  attr # AbstractMethods \/ ~StartsWith(attr, AbcPrefix)

\* isinstance(cls, type) and (attr != "__abstractmethods__"
\*                            and not attr.startswith("_abc_"))
\* (cls is a class, so isinstance(cls, type) holds)
Frozen(attr) == attr # AbstractMethods /\ ~StartsWith(attr, AbcPrefix)

\* the class as declared, an instance with no attribute of its own
DeclaredClass ==
  /\ class_attrs = [a \in AttrNames |-> "declared"]
  /\ instance_attrs = [a \in AttrNames |-> Unset]
  /\ assigned = [target |-> "none", attr |-> <<>>, value |-> Unset,
                 raised |-> "none"]

(***************************************************************************)
(* __init__ (which ends with reset())                                      *)
(***************************************************************************)
\* no second sampler is looked at
NoTwin ==
  [seed |-> NoneInt, sync |-> FALSE, scene_id |-> 0, scene_order |-> <<>>,
   scene_counter |-> 0, max_tasks |-> NoneInt,
   out |-> [scene |-> NoScene, task_info |-> <<>>, raised |-> "none",
            returned |-> FALSE]]

Init ==
  /\ kind \in {"nav", "manip"}
  /\ scenes \in {ScenesOfLen(n) : n \in 1..MaxScenes}
  /\ scene_period \in PeriodValues
  /\ reset_tasks \in {NoneInt} \cup {SomeInt(n) : n \in 0..MaxTasks}
  /\ object_types = <<"Mug">>
  /\ seed = NoneInt
  /\ scene_counter = 0
  /\ scene_order \in Perms(Len(scenes))
  /\ scene_id = 0
  /\ max_tasks = reset_tasks
  /\ env = NoEnv
  /\ last_sampled_task = NoTask
  /\ last = Quiet("init", FALSE)
  /\ hist = [samples |-> 0, forced |-> 0, tasks |-> 0, used |-> ZeroUse,
             passed |-> FALSE, everTask |-> FALSE, envsBuilt |-> 0]
  /\ DeclaredClass
  /\ twin = NoTwin

(***************************************************************************)
(* next_task(force_advance_scene)                                          *)
(***************************************************************************)
\* mutant: the budget is checked after the forced advance
NextTaskRefusedLate(force) ==
  /\ last' = Quiet("next_task", force)
  /\ scene_id' = IF force THEN (1 + scene_id) % Len(scenes) ELSE scene_id
  /\ UNCHANGED <<scene_counter, scene_order, max_tasks, env,
                 last_sampled_task, hist>>

\* the call returns None at the budget check
NextTaskRefused(force) ==
  /\ last' = Quiet("next_task", force)
  /\ UNCHANGED <<scene_counter, scene_order, scene_id, max_tasks, env,
                 last_sampled_task, hist>>

\* sample_scene raised: what it assigned before raising stays
NextTaskRaised(force, r) ==
  /\ scene_id' = r.id
  /\ scene_order' = r.order
  /\ scene_counter' = r.counter
  /\ max_tasks' = r.max_tasks
  /\ last' = [Quiet("next_task", force) EXCEPT
                !.raised = "NotImplementedError", !.warned = r.warned,
                !.shuffles = r.shuffles]
  /\ hist' = [AfterSample(hist, force, r) EXCEPT !.passed = TRUE]
  /\ UNCHANGED <<env, last_sampled_task>>

\* the scene is sampled, then the environment is made ready and the task built
NextTaskSampled(force, r, e) ==
  /\ scene_id' = r.id
  /\ scene_order' = r.order
  /\ scene_counter' = r.counter
  /\ max_tasks' = r.max_tasks
  /\ env' = IF e.failed THEN e.env ELSE AfterSetup(kind, e.env)
  /\ last_sampled_task' = SampledTask(e.failed)
  /\ IF e.failed
     THEN /\ last' = [Quiet("next_task", force) EXCEPT
                        !.raised = "SimulatorFailure", !.warned = r.warned,
                        !.shuffles = r.shuffles, !.scene = r.scene,
                        !.envLog = e.log]
          /\ hist' = [AfterSample(hist, force, r) EXCEPT
                        !.passed = TRUE, !.envsBuilt = @ + e.built]
     ELSE /\ \E info \in TaskInfo(kind, e.env, e.log \o SetupCalls(kind)) :
               last' = [Quiet("next_task", force) EXCEPT
                          !.warned = r.warned, !.shuffles = r.shuffles,
                          !.scene = r.scene, !.ret = NewTask,
                          !.envLog = e.log \o SetupCalls(kind),
                          !.task_info = info,
                          !.noTarget = "object_type" \notin DOMAIN info,
                          !.dropped = e.env.hand]
          /\ hist' = [AfterSample(hist, force, r) EXCEPT
                        !.passed = TRUE, !.everTask = TRUE,
                        !.tasks = @ + 1, !.envsBuilt = @ + e.built]

NextTask(force) ==
  /\ UNCHANGED <<config, experiment>>
  /\ IF BudgetExhausted(max_tasks)
     THEN NextTaskRefused(force)
     ELSE /\ hist.samples < MaxCalls
          /\ \E r \in SampleScene(force) :
               IF r.raised
               THEN NextTaskRaised(force, r)
               ELSE \E e \in EnsureEnvironment(kind, env, r.scene) :
                      NextTaskSampled(force, r, e)

(***************************************************************************)
(* reset()                                                                 *)
(***************************************************************************)
\* mutant: the budget is not restored
ResetKeepsBudget ==
  /\ UNCHANGED <<config, experiment>>
  /\ scene_counter' = 0
  /\ scene_order' \in Shuffle([i \in 1..Len(scenes) |-> i - 1])
  /\ scene_id' = 0
  /\ max_tasks' = max_tasks
  /\ last' = [Quiet("reset", FALSE) EXCEPT !.shuffles = 1]
  /\ hist' = [hist EXCEPT !.samples = 0, !.forced = 0, !.tasks = 0,
                          !.used = ZeroUse]
  /\ UNCHANGED <<env, last_sampled_task>>

Reset ==
  /\ UNCHANGED <<config, experiment>>
  /\ scene_counter' = 0
  /\ scene_order' \in Shuffle([i \in 1..Len(scenes) |-> i - 1])
  /\ scene_id' = 0
  /\ max_tasks' = reset_tasks
  /\ last' = [Quiet("reset", FALSE) EXCEPT !.shuffles = 1]
  /\ hist' = [hist EXCEPT !.samples = 0, !.forced = 0, !.tasks = 0,
                          !.used = ZeroUse]
  /\ UNCHANGED <<env, last_sampled_task>>

(***************************************************************************)
(* close()                                                                 *)
(***************************************************************************)
\* mutant: the environment is left running
CloseLeavesRunning ==
  /\ UNCHANGED <<config, experiment>>
  /\ env' = env
  /\ last' = Quiet("close", FALSE)
  /\ UNCHANGED <<scene_counter, scene_order, scene_id, max_tasks,
                 last_sampled_task, hist>>

Close ==
  /\ UNCHANGED <<config, experiment>>
  /\ IF env.exists
     THEN /\ env' = [env EXCEPT !.stopped = TRUE]
          /\ last' = [Quiet("close", FALSE) EXCEPT !.envLog = <<"stop">>]
     ELSE /\ env' = env
          /\ last' = Quiet("close", FALSE)
  /\ UNCHANGED <<scene_counter, scene_order, scene_id, max_tasks,
                 last_sampled_task, hist>>

Next ==
  \/ \E force \in BOOLEAN : NextTask(force) /\ UNCHANGED twin
  \/ Reset /\ UNCHANGED twin
  \/ Close /\ UNCHANGED twin

Spec == Init /\ [][Next]_vars

(***************************************************************************)
(* sample_scene(force_advance_scene) called on the sampler directly: the   *)
(* budget check of next_task is not passed and no task is built            *)
(***************************************************************************)
SampleSceneCall(force) ==
  /\ UNCHANGED <<config, experiment>>
  /\ hist.samples < MaxCalls
  /\ \E r \in SampleScene(force) :
       /\ scene_id' = r.id
       /\ scene_order' = r.order
       /\ scene_counter' = r.counter
       /\ max_tasks' = r.max_tasks
       /\ last' = [Quiet("sample_scene", force) EXCEPT
                     !.raised = IF r.raised THEN "NotImplementedError"
                                ELSE "none",
                     !.warned = r.warned, !.shuffles = r.shuffles,
                     !.scene = r.scene]
       /\ hist' = AfterSample(hist, force, r)
  /\ UNCHANGED <<env, last_sampled_task>>

NextDirect ==
  \/ \E force \in BOOLEAN : NextTask(force) /\ UNCHANGED twin
  \/ \E force \in BOOLEAN : SampleSceneCall(force) /\ UNCHANGED twin
  \/ Reset /\ UNCHANGED twin
  \/ Close /\ UNCHANGED twin

SpecDirect == Init /\ [][NextDirect]_vars

(***************************************************************************)
(* The samplers with the tasks they hand out being played: between two     *)
(* next_task() calls the agent of a manipulation task may pick an object   *)
(* up.  The samplers are constructed with several lists of object types    *)
(* and over pools of rooms that hold different objects.                    *)
(***************************************************************************)
\* FloorPlan1, FloorPlan2, ...: a pool of different rooms
RoomsOfLen(n) == [i \in 1..n |-> SceneName(2 * i - 1)]

ObjectTypeLists == {<<"Apple", "Mug">>, <<"Tomato", "Mug">>}

InitTask ==
  /\ kind \in {"nav", "manip"}
  /\ scenes \in {ScenesOfLen(MaxScenes), RoomsOfLen(MaxScenes)}
  /\ scene_period \in {NonePeriod, IntPeriod(1)}
  /\ reset_tasks = SomeInt(MaxTasks)
  /\ object_types \in ObjectTypeLists
  /\ seed = NoneInt
  /\ scene_counter = 0
  /\ scene_order \in Perms(Len(scenes))
  /\ scene_id = 0
  /\ max_tasks = reset_tasks
  /\ env = NoEnv
  /\ last_sampled_task = NoTask
  /\ last = Quiet("init", FALSE)
  /\ hist = [samples |-> 0, forced |-> 0, tasks |-> 0, used |-> ZeroUse,
             passed |-> FALSE, everTask |-> FALSE, envsBuilt |-> 0]
  /\ DeclaredClass
  /\ twin = NoTwin

\* a step of the manipulation task in which the hand picks an object up
PickUp ==
  /\ UNCHANGED <<config, experiment>>
  /\ kind = "manip" /\ env.exists /\ ~env.stopped
  /\ last_sampled_task # NoTask
  /\ env.hand = NoObject
  /\ \E o \in SceneObjectTypes(env.scene_name) :
       env' = [env EXCEPT !.hand = o, !.objects_in_hand = <<o>>]
  /\ last' = Quiet("step", FALSE)
  /\ UNCHANGED <<scene_counter, scene_order, scene_id, max_tasks,
                 last_sampled_task, hist>>

NextTaskPlayed ==
  \/ \E force \in BOOLEAN : NextTask(force) /\ UNCHANGED twin
  \/ Reset /\ UNCHANGED twin
  \/ Close /\ UNCHANGED twin
  \/ PickUp /\ UNCHANGED twin

SpecTask == InitTask /\ [][NextTaskPlayed]_vars

(***************************************************************************)
(* Assignments to an ExperimentConfig class and to an instance of it       *)
(***************************************************************************)
sampler == <<config, scene_counter, scene_order, scene_id, max_tasks, env,
             last_sampled_task, last, hist>>

InitConfig ==
  /\ kind = "nav"
  /\ scenes = ScenesOfLen(1)
  /\ scene_period = NonePeriod
  /\ reset_tasks = NoneInt
  /\ object_types = <<"Mug">>
  /\ seed = NoneInt
  /\ scene_counter = 0
  /\ scene_order = <<0>>
  /\ scene_id = 0
  /\ max_tasks = reset_tasks
  /\ env = NoEnv
  /\ last_sampled_task = NoTask
  /\ last = Quiet("init", FALSE)
  /\ hist = [samples |-> 0, forced |-> 0, tasks |-> 0, used |-> ZeroUse,
             passed |-> FALSE, everTask |-> FALSE, envsBuilt |-> 0]
  /\ DeclaredClass
  /\ twin = NoTwin

\* Config.attr = value: FrozenClassVariables.__setattr__(cls, attr, value)
SetClassAttr(attr, value) ==
  /\ IF Frozen(attr)
     THEN /\ class_attrs' = class_attrs
          /\ assigned' = [target |-> "class", attr |-> attr,
                          value |-> value, raised |-> "RuntimeError"]
     ELSE /\ class_attrs' = [class_attrs EXCEPT ![attr] = value]
          /\ assigned' = [target |-> "class", attr |-> attr,
                          value |-> value, raised |-> "none"]
  /\ UNCHANGED <<instance_attrs, sampler>>

\* config.attr = value on an instance: the metaclass is not asked
SetInstanceAttr(attr, value) ==
  /\ instance_attrs' = [instance_attrs EXCEPT ![attr] = value]
  /\ assigned' = [target |-> "instance", attr |-> attr, value |-> value,
                  raised |-> "none"]
  /\ UNCHANGED <<class_attrs, sampler>>

NextConfig ==
  \/ \E attr \in AttrNames, value \in AttrValues :
       SetClassAttr(attr, value) /\ UNCHANGED twin
  \/ \E attr \in AttrNames, value \in AttrValues :
       SetInstanceAttr(attr, value) /\ UNCHANGED twin

SpecConfig == InitConfig /\ [][NextConfig]_vars

(***************************************************************************)
(* Two samplers of the same configuration, each in a process of its own    *)
(* (with the process's random generator to itself), given the same calls   *)
(* against environments that behave alike.  The first is the sampler of    *)
(* the variables above; twin holds the rotation of the second and what     *)
(* its last call gave.  twin.sync says that the two generators are in the  *)
(* same state; a second sampler whose generator is in another state is     *)
(* adrift: it may give any scene of the pool.                              *)
(***************************************************************************)
Entropy == [seeded |-> FALSE, stream |-> 0]

\* mutant: the seed is stored and never applied
SetSeedSkipped(sd) == Entropy

\* set_seed: self.seed = seed; if seed is not None: set_seed(seed)
SetSeed(sd) ==
  IF sd.isNone THEN Entropy ELSE [seeded |-> TRUE, stream |-> sd.v]

\* generators seeded alike answer the same requests alike
SameStream(g, h) == g.seeded /\ h.seeded /\ g.stream = h.stream

\* what a call gave its caller: the scene, the object type and the poses
\* of the task, the exception
OutOf(l) ==
  [scene |-> l.scene, task_info |-> l.task_info, raised |-> l.raised,
   returned |-> l.ret # NoTask]

\* the second sampler in step with the first
InStep(sd, id, order, counter, mt, out) ==
  [seed |-> sd, sync |-> TRUE, scene_id |-> id, scene_order |-> order,
   scene_counter |-> counter, max_tasks |-> mt, out |-> out]

\* the second sampler adrift: its rotation is not followed
Adrift(sd, out) == [NoTwin EXCEPT !.seed = sd, !.out = out]

\* what a next_task() call of a sampler adrift can give
AnyOut(force) ==
  {OutOf(Quiet("next_task", force))}
    \cup UNION {
           {[scene |-> scenes[i], task_info |-> t, raised |-> "none",
             returned |-> TRUE] :
              t \in TaskInfo(kind, EnvReset(CreateEnvironment, scenes[i]),
                             <<"reset">> \o SetupCalls(kind))} :
           i \in 1..Len(scenes)}

\* the two constructors: set_seed(seed), then reset()
InitTwin ==
  /\ kind \in {"nav", "manip"}
  /\ scenes = RoomsOfLen(MaxScenes)
  /\ scene_period = IntPeriod(1)
  /\ reset_tasks = SomeInt(MaxTasks)
  /\ object_types = <<"Apple", "Mug">>
  /\ seed \in {NoneInt, SomeInt(0)}
  /\ scene_counter = 0
  /\ scene_order \in Perms(Len(scenes))
  /\ scene_id = 0
  /\ max_tasks = reset_tasks
  /\ env = NoEnv
  /\ last_sampled_task = NoTask
  /\ last = Quiet("init", FALSE)
  /\ hist = [samples |-> 0, forced |-> 0, tasks |-> 0, used |-> ZeroUse,
             passed |-> FALSE, everTask |-> FALSE, envsBuilt |-> 0]
  /\ DeclaredClass
  /\ \E sd \in {seed, SomeInt(1)} :
       twin = IF SameStream(SetSeed(seed), SetSeed(sd))
              THEN InStep(sd, 0, scene_order, 0, reset_tasks, OutOf(last))
              ELSE Adrift(sd, OutOf(last))

\* the generators are in the same state and the rotations are the same:
\* the same call makes the same requests and gets the same answers
TwinAgrees ==
  /\ twin.sync
  /\ twin.scene_id = scene_id /\ twin.scene_order = scene_order
  /\ twin.scene_counter = scene_counter /\ twin.max_tasks = max_tasks

\* next_task(force) of the second sampler, alongside that of the first
TwinNextTask(force) ==
  IF TwinAgrees
  THEN twin' = InStep(twin.seed, scene_id', scene_order', scene_counter',
                      max_tasks', OutOf(last'))
  ELSE \E out \in AnyOut(force) : twin' = Adrift(twin.seed, out)

\* reset() and close() of the second sampler, alongside those of the first
TwinQuiet ==
  IF TwinAgrees
  THEN twin' = InStep(twin.seed, scene_id', scene_order', scene_counter',
                      max_tasks', OutOf(last'))
  ELSE twin' = Adrift(twin.seed, OutOf(last'))

NextTwin ==
  \/ \E force \in BOOLEAN : NextTask(force) /\ TwinNextTask(force)
  \/ Reset /\ TwinQuiet
  \/ Close /\ TwinQuiet

SpecTwin == InitTwin /\ [][NextTwin]_vars

(***************************************************************************)
(* Terms of the statements                                                 *)
(***************************************************************************)
NumScenes == Len(scenes)

\* scene_period is None, "manual" or a positive integer
ValidPeriod ==
  \/ IsNonePeriod(scene_period)
  \/ IsManual(scene_period)
  \/ (IsInt(scene_period) /\ scene_period.num >= 1)

\* every call since the last reset() that sampled a scene returned a task:
\* neither sample_scene nor the simulator raised
NoFailureIn(h) == h.tasks = h.samples

HasBudget == max_tasks.isNone \/ max_tasks.v > 0

CountOf(log, call) == Cardinality({i \in 1..Len(log) : log[i] = call})

C1_LengthIsBudgetLeft ==
  (~reset_tasks.isNone /\ ValidPeriod /\ NoFailureIn(hist))
    => /\ ~length.inf
       /\ length.v = reset_tasks.v - hist.tasks
       /\ length.v >= 0

C1_FirstKCallsReturn ==
  (/\ ~reset_tasks.isNone /\ ValidPeriod
   /\ last'.op = "next_task"
   /\ NoFailureIn(hist) /\ NoFailureIn(hist'))
    => /\ (last'.ret # NoTask) <=> (hist.tasks < reset_tasks.v)
       /\ last'.ret # NoTask => hist'.tasks = hist.tasks + 1
       /\ last'.ret = NoTask
            => (last'.raised = "none" /\ hist'.tasks = reset_tasks.v)

(***************************************************************************)
(* C1: with max_tasks = K >= 0 and a valid scene_period, in a run of       *)
(* next_task() calls since construction or reset() in which nothing        *)
(* raised, a call returns a task if and only if fewer than K tasks were    *)
(* returned before it (and otherwise returns nothing, without raising);    *)
(* length is K minus the number of tasks returned, and never negative.     *)
(***************************************************************************)
C1_Budget == [](C1_LengthIsBudgetLeft) /\ [][C1_FirstKCallsReturn]_vars

C1_Witness ==
  /\ reset_tasks = SomeInt(2) /\ ValidPeriod
  /\ hist.tasks = 2 /\ hist.samples = 2
  /\ last.op = "next_task" /\ last.ret = NoTask /\ last.raised = "none"
  /\ length.v = 0

PeriodicRotation ==
  /\ IsInt(scene_period) /\ scene_period.num >= 1
  /\ NumScenes >= 2

\* the uses a block has made of slot s after its t-th sampling
UsesOfSlot(s) ==
  IF s < scene_id THEN scene_period.num
  ELSE IF s = scene_id THEN scene_counter
  ELSE 0

C2_BlockPosition ==
  (PeriodicRotation /\ hist.forced = 0 /\ hist.samples >= 1)
    => LET N == scene_period.num
           t == hist.samples
       IN  /\ scene_id = ((t - 1) \div N) % NumScenes
           /\ scene_counter = ((t - 1) % N) + 1
           /\ scene_order \in Perms(NumScenes)
           /\ \A s \in 0..(NumScenes - 1) :
                hist.used[scene_order[s + 1] + 1] = UsesOfSlot(s)
           /\ t % (N * NumScenes) = 0
                => \A i \in 1..NumScenes : hist.used[i] = N

C2_ShuffleOnlyBetweenBlocks ==
  (PeriodicRotation /\ last'.op = "next_task" /\ hist'.forced = 0
   /\ hist'.samples = hist.samples + 1)
    => LET N == scene_period.num
           wraps == hist.samples >= 1 /\ hist.samples % (N * NumScenes) = 0
       IN  /\ last'.shuffles = IF wraps THEN 1 ELSE 0
           /\ ~wraps => scene_order' = scene_order

(***************************************************************************)
(* C2: with scene_period = N (positive integer), at least two scenes and   *)
(* no forced advance since construction or reset(), the t-th sampling      *)
(* uses permutation slot ((t-1) div N) mod L for the ((t-1) mod N)+1-th    *)
(* time: within a block of N*L samplings the slots are used in order, N    *)
(* consecutive times each, so that every scene is used exactly N times,    *)
(* and the permutation is shuffled only by the sampling that moves from    *)
(* the last slot of a block to slot 0 of the next.                         *)
(***************************************************************************)
C2_Rotation == [](C2_BlockPosition) /\ [][C2_ShuffleOnlyBetweenBlocks]_vars

C2_Witness ==
  /\ PeriodicRotation /\ scene_period.num = 2 /\ hist.forced = 0
  /\ hist.samples = 5 /\ last.op = "next_task" /\ last.shuffles = 1
  /\ scene_id = 0 /\ scene_counter = 1

ManualStep(advances) ==
  IF advances
  THEN /\ scene_id' = (scene_id + 1) % NumScenes
       /\ last'.shuffles = IF scene_id' = 0 THEN 1 ELSE 0
       /\ scene_id' # 0 => scene_order' = scene_order
       /\ scene_order' \in Perms(NumScenes)
  ELSE /\ scene_id' = scene_id
       /\ scene_order' = scene_order
       /\ last'.shuffles = 0

(***************************************************************************)
(* C3 as stated: under "manual" a next_task(force_advance_scene=False)     *)
(* call changes neither scene_id nor the permutation, and every            *)
(* next_task(force_advance_scene=True) call advances scene_id by one       *)
(* modulo len(scenes), shuffling exactly when it wraps to 0.               *)
(***************************************************************************)
C3_EveryForcedCallAdvances ==
  [][(IsManual(scene_period) /\ last'.op = "next_task")
       => ManualStep(last'.force)]_vars

C3_SlotIsForcedCount ==
  IsManual(scene_period)
    => /\ scene_id = hist.forced % NumScenes
       /\ scene_order \in Perms(NumScenes)

C3_ForcedCallWithBudgetAdvances ==
  (IsManual(scene_period) /\ last'.op = "next_task")
    => /\ ManualStep(last'.force /\ HasBudget)
       /\ hist'.forced =
            hist.forced + (IF last'.force /\ HasBudget THEN 1 ELSE 0)

(***************************************************************************)
(* C3 amended: under "manual" a next_task(force_advance_scene=True) call   *)
(* made while budget remains advances scene_id by one modulo len(scenes)   *)
(* and shuffles exactly when scene_id wraps to 0; every other next_task()  *)
(* call leaves scene_id and the permutation alone.  So after f such        *)
(* forced calls since construction or reset() the slot is f mod            *)
(* len(scenes): len(scenes) of them lead back to the slot they started     *)
(* from, with one shuffle on the way.                                      *)
(***************************************************************************)
C3_Manual ==
  [](C3_SlotIsForcedCount) /\ [][C3_ForcedCallWithBudgetAdvances]_vars

C3_Witness ==
  /\ IsManual(scene_period) /\ NumScenes = 2
  /\ hist.forced = 2 /\ scene_id = 0
  /\ last.op = "next_task" /\ last.force /\ last.shuffles = 1

C4_ResetStep ==
  (last'.op = "reset")
    => /\ scene_counter' = 0
       /\ scene_id' = 0
       /\ scene_order' \in Perms(NumScenes)
       /\ max_tasks' = reset_tasks
       /\ reset_tasks' = reset_tasks
       /\ (~reset_tasks.isNone => (~length'.inf /\ length'.v = reset_tasks.v))
       /\ env' = env
       /\ last_sampled_task' = last_sampled_task
       /\ last'.envLog = <<>>
       /\ hist'.envsBuilt = hist.envsBuilt

(***************************************************************************)
(* C4: reset() sets scene_counter and scene_id to 0, scene_order to a      *)
(* permutation of the indices of scenes and max_tasks to the bound given   *)
(* at construction; it leaves the environment handle and                   *)
(* last_sampled_task as they are and calls nothing on the environment.     *)
(***************************************************************************)
C4_Reset == [][C4_ResetStep]_vars

C4_Witness ==
  /\ last.op = "reset"
  /\ env.exists /\ ~env.stopped /\ last_sampled_task # NoTask
  /\ reset_tasks = SomeInt(2) /\ max_tasks = SomeInt(2)
  /\ scene_id = 0 /\ scene_counter = 0

C5_RefusedStep ==
  (last'.op = "next_task" /\ ~max_tasks.isNone /\ max_tasks.v <= 0)
    => /\ last'.ret = NoTask
       /\ last'.raised = "none"
       /\ last'.warned = FALSE
       /\ last'.envLog = <<>>
       /\ last'.shuffles = 0
       /\ hist'.envsBuilt = hist.envsBuilt
       /\ UNCHANGED <<scene_id, scene_counter, scene_order, max_tasks, env,
                      last_sampled_task>>

(***************************************************************************)
(* C5: a next_task() call made with a bounded max_tasks <= 0 returns       *)
(* nothing and changes no state: no environment is constructed, nothing    *)
(* is called on the environment, and scene_id, scene_counter, scene_order  *)
(* and max_tasks stay as they are, with or without force_advance_scene.    *)
(***************************************************************************)
C5_Exhausted == [][C5_RefusedStep]_vars

C5_Witness ==
  /\ last.op = "next_task" /\ last.force
  /\ last.ret = NoTask /\ last.raised = "none"
  /\ ~max_tasks.isNone /\ max_tasks.v <= 0
  /\ NumScenes = 2 /\ env.exists

NoneBeforeFirstTask == ~hist.everTask => last_sampled_task = NoTask

ReturnedTaskIsStored ==
  (last.op = "next_task" /\ last.ret # NoTask)
    => last_sampled_task = last.ret

RefusedByBudget ==
  last.op = "next_task" /\ last.ret = NoTask /\ last.raised = "none"

(***************************************************************************)
(* C6 as stated: last_sampled_task is None until the first successful      *)
(* next_task(), after a successful next_task() it is the task that call    *)
(* returned, and after a next_task() that returns nothing because the      *)
(* budget is exhausted it is None.                                         *)
(***************************************************************************)
C6_NoneAfterExhaustion ==
  /\ NoneBeforeFirstTask
  /\ ReturnedTaskIsStored
  /\ RefusedByBudget => last_sampled_task = NoTask

C6_KeptAtExhaustion ==
  /\ (last'.op = "next_task" /\ last'.ret = NoTask /\ last'.raised = "none")
       => last_sampled_task' = last_sampled_task
  /\ (last'.op = "next_task" /\ last'.ret # NoTask)
       => (last_sampled_task' = last'.ret /\ last'.ret # last_sampled_task)

(***************************************************************************)
(* C6 amended: last_sampled_task is None until the first successful        *)
(* next_task(); after a successful next_task() it is the task that call    *)
(* returned, a new object; a next_task() that returns nothing because the  *)
(* budget is exhausted leaves it as it was (the last task returned, or     *)
(* None when there was none).                                              *)
(***************************************************************************)
C6_LastSampledTask ==
  [](NoneBeforeFirstTask /\ ReturnedTaskIsStored)
    /\ [][C6_KeptAtExhaustion]_vars

C6_Witness ==
  /\ RefusedByBudget
  /\ last_sampled_task # NoTask
  /\ hist.tasks = 2 /\ max_tasks = SomeInt(0)

C7_AtMostOneBuilt ==
  /\ hist.envsBuilt <= 1
  /\ ~hist.passed => ~env.exists
  /\ env.exists => (hist.envsBuilt = 1 /\ env.id = 1)

C7_HandleKept == env.exists => (env'.exists /\ env'.id = env.id)

(***************************************************************************)
(* C7: the environment handle is None until a next_task() call has passed  *)
(* the budget check; whatever next_task(), reset() and close() calls are   *)
(* made, at most one environment is constructed, and a handle once set is  *)
(* never replaced.                                                         *)
(***************************************************************************)
C7_OneEnvironment == [](C7_AtMostOneBuilt) /\ [][C7_HandleKept]_vars

C7_Witness ==
  /\ env.exists /\ hist.envsBuilt = 1 /\ env.stopped = FALSE
  /\ last.op = "next_task" /\ last.ret # NoTask
  /\ CountOf(last.envLog, "construct") = 0
  /\ CountOf(last.envLog, "reset") = 1
  /\ hist.tasks >= 2

SampledScene == SceneAt(scene_order, scene_id)

\* a scene name without its "_physics" suffix
BaseOf(name) ==
  IF Len(name) > 0 /\ name[Len(name)] = PhysicsSuffix
  THEN SubSeq(name, 1, Len(name) - 1)
  ELSE name

C8_ResetDecision ==
  (last'.op = "next_task" /\ last'.ret # NoTask /\ env.exists)
    => /\ CountOf(last'.envLog, "construct") = 0
       /\ env'.exists /\ env'.id = env.id
       /\ IF kind = "nav"
          THEN CountOf(last'.envLog, "reset") =
                 IF BaseOf(SampledScene') # BaseOf(env.scene_name)
                 THEN 1 ELSE 0
          ELSE CountOf(last'.envLog, "reset") = 1

(***************************************************************************)
(* C8: on a successful next_task() made when an environment exists, the    *)
(* navigation sampler calls env.reset(scene) if and only if the sampled    *)
(* scene and the environment's scene differ once "_physics" is removed     *)
(* from both ("FloorPlan1" against "FloorPlan1_physics": no reset); the    *)
(* manipulation sampler calls it exactly once, whatever the scenes.        *)
(***************************************************************************)
C8_ResetOrReuse == [][C8_ResetDecision]_vars

C8_Witness ==
  /\ kind = "nav" /\ last.op = "next_task" /\ last.ret # NoTask
  /\ hist.tasks >= 2
  /\ last.envLog = <<"randomize_agent_location">>
  /\ SampledScene = <<"FloorPlan1">>
  /\ env.scene_name = <<"FloorPlan1", "_physics">>

InvalidPeriod ==
  /\ ~IsNonePeriod(scene_period)
  /\ ~IsManual(scene_period)
  /\ ~IsInt(scene_period)

(***************************************************************************)
(* C9: with a scene_period that is not None, not "manual" and not an       *)
(* integer, every next_task() call that reaches the scene sampling raises  *)
(* the configuration error and returns no task (stated for the calls in    *)
(* which the simulator does not fail, so that a violation is a call that   *)
(* returned a task).                                                       *)
(***************************************************************************)
C9_InvalidPeriodRaises ==
  [][(InvalidPeriod /\ last'.op = "next_task" /\ HasBudget
      /\ hist'.samples = hist.samples + 1
      /\ last'.raised # "SimulatorFailure")
       => (last'.raised = "NotImplementedError" /\ last'.ret = NoTask)]_vars

\* the rotation of a forced call under None or an integer scene_period
ForcedThenPolicy ==
  LET a == (scene_id + 1) % NumScenes
      first == IF a = 0 THEN 1 ELSE 0
  IN  IF IsNonePeriod(scene_period)
      THEN /\ scene_id' \in 0..(NumScenes - 1)
           /\ scene_counter' = scene_counter
           /\ last'.shuffles = first
      ELSE IF scene_counter = scene_period.num
      THEN /\ scene_counter' = 1
           /\ scene_id' = IF a = NumScenes - 1 THEN 0 ELSE a + 1
           /\ last'.shuffles = first + (IF a = NumScenes - 1 THEN 1 ELSE 0)
      ELSE /\ scene_counter' = scene_counter + 1
           /\ scene_id' = a
           /\ last'.shuffles = first

ForcedUnderPeriod ==
  /\ IsNonePeriod(scene_period) \/ IsInt(scene_period)
  /\ last'.op = "next_task" /\ last'.force

(***************************************************************************)
(* C10 as stated: a next_task(force_advance_scene=True) call made while    *)
(* scene_period is None or an integer logs a warning, raises nothing,      *)
(* advances scene_id by one modulo len(scenes) (shuffling when it wraps    *)
(* to 0) before the configured policy is applied, and returns a task when  *)
(* budget remains.                                                         *)
(***************************************************************************)
C10_ForcedCallAlwaysWarns ==
  [][ForcedUnderPeriod
       => /\ last'.warned
          /\ last'.raised = "none"
          /\ ForcedThenPolicy
          /\ HasBudget => last'.ret # NoTask]_vars

C10_ForcedStep ==
  ForcedUnderPeriod
    => IF HasBudget
       THEN /\ last'.warned
            /\ last'.raised \in {"none", "SimulatorFailure"}
            /\ ForcedThenPolicy
            /\ (last'.ret # NoTask) <=> (last'.raised = "none")
            /\ max_tasks' = DecrementBudget(max_tasks)
       ELSE /\ ~last'.warned
            /\ last'.ret = NoTask
            /\ UNCHANGED <<scene_id, scene_counter, scene_order>>

(***************************************************************************)
(* C10 amended: a next_task(force_advance_scene=True) call made with       *)
(* budget remaining while scene_period is None or an integer logs a        *)
(* warning, gets no error from the scene sampling, advances scene_id by    *)
(* one modulo len(scenes) (shuffling when it wraps to 0) before the        *)
(* configured policy is applied, and returns a task unless the simulator   *)
(* raises.  With the budget exhausted the call returns nothing and neither *)
(* warns nor advances.                                                     *)
(***************************************************************************)
C10_ForcedAdvanceWarns == [][C10_ForcedStep]_vars

C10_Witness ==
  /\ IsInt(scene_period) /\ NumScenes = 2
  /\ last.op = "next_task" /\ last.force /\ last.warned
  /\ last.ret # NoTask /\ last.shuffles = 1
  /\ hist.samples >= 2

Unbounded == reset_tasks.isNone

C14_StaysUnbounded == Unbounded => (max_tasks.isNone /\ length.inf)

C14_NeverRefused ==
  (Unbounded /\ last'.op = "next_task")
    => (last'.ret # NoTask \/ last'.raised # "none")

(***************************************************************************)
(* C14: for a sampler constructed with max_tasks = None, after any         *)
(* sequence of next_task(), reset() and close() calls max_tasks is still   *)
(* None and length is +infinity, and no next_task() call returns nothing:  *)
(* each returns a task or ends with an exception.                          *)
(***************************************************************************)
C14_Unbounded == [](C14_StaysUnbounded) /\ [][C14_NeverRefused]_vars

C14_Witness ==
  /\ Unbounded /\ max_tasks.isNone /\ length.inf
  /\ hist.tasks > MaxTasks /\ hist.passed /\ env.stopped
  /\ last.op = "next_task" /\ last.ret # NoTask

C15_CloseStep ==
  last'.op = "close"
    => /\ IF env.exists
          THEN /\ env' = [env EXCEPT !.stopped = TRUE]
               /\ last'.envLog = <<"stop">>
          ELSE /\ env' = env
               /\ last'.envLog = <<>>
       /\ last'.raised = "none"
       /\ UNCHANGED <<scene_id, scene_counter, scene_order, max_tasks,
                      last_sampled_task>>

(***************************************************************************)
(* C15: close() stops the environment when one has been created (stop is   *)
(* its only call on the simulator) and calls nothing when none has been    *)
(* created; in both cases scene_id, scene_counter, scene_order, max_tasks  *)
(* and last_sampled_task stay as they are.                                 *)
(***************************************************************************)
C15_Close == [][C15_CloseStep]_vars

C15_Witness ==
  /\ last.op = "close" /\ last.envLog = <<"stop">>
  /\ env.exists /\ env.stopped
  /\ last_sampled_task # NoTask /\ scene_counter > 0

SimulatorRaised == last'.op = "next_task" /\ last'.raised = "SimulatorFailure"

C18_FailedStep ==
  SimulatorRaised
    => /\ last'.ret = NoTask
       /\ last'.envLog \in {<<"construct">>, <<"construct", "reset">>,
                            <<"reset">>}
       /\ max_tasks' = DecrementBudget(max_tasks)
       /\ hist'.samples = hist.samples + 1
       /\ last_sampled_task' = last_sampled_task

(***************************************************************************)
(* C18: when the construction of the environment or env.reset raises       *)
(* during next_task(), the call ends with that exception and returns no    *)
(* task; the simulator call that failed was made once and nothing was      *)
(* called after it; the budget unit taken by the scene sampling of the     *)
(* call stays taken; last_sampled_task keeps the value it had.             *)
(***************************************************************************)
C18_SimulatorFailure == [][C18_FailedStep]_vars

C18_Witness ==
  /\ last.op = "next_task" /\ last.raised = "SimulatorFailure"
  /\ last.envLog = <<"reset">>
  /\ last_sampled_task # NoTask
  /\ max_tasks = SomeInt(0) /\ hist.samples = 2 /\ hist.tasks = 1

\* a step in which sample_scene ran, called directly or by next_task
SceneSampling ==
  /\ last'.op \in {"sample_scene", "next_task"}
  /\ hist'.samples = hist.samples + 1

BudgetCountedDown ==
  IF max_tasks.isNone THEN max_tasks'.isNone
  ELSE max_tasks' = SomeInt(max_tasks.v - 1)

(***************************************************************************)
(* C17 as stated: every sample_scene() call on a sampler with a bounded    *)
(* max_tasks decrements it by exactly one, for every scene_period and      *)
(* force_advance_scene and whichever branch is taken; a max_tasks of None  *)
(* is left as it is.                                                       *)
(***************************************************************************)
C17_EveryCallDecrements == [][SceneSampling => BudgetCountedDown]_vars

C17_SamplingStep ==
  SceneSampling
    => /\ (last'.scene = NoScene) <=> (last'.raised = "NotImplementedError")
       /\ IF last'.raised = "NotImplementedError"
          THEN max_tasks' = max_tasks
          ELSE BudgetCountedDown

(***************************************************************************)
(* C17 amended: every sample_scene() call that returns a scene decrements  *)
(* a bounded max_tasks by exactly one, for every scene_period and          *)
(* force_advance_scene and whichever branch of the rotation is taken, and  *)
(* leaves a max_tasks of None as it is; a call that raises                 *)
(* NotImplementedError for its scene_period leaves max_tasks unchanged.    *)
(***************************************************************************)
C17_BudgetDecrement == [][C17_SamplingStep]_vars

C17_Witness ==
  /\ last.op = "sample_scene" /\ last.force /\ last.scene # NoScene
  /\ IsManual(scene_period)
  /\ reset_tasks = SomeInt(1) /\ max_tasks = SomeInt(-1)

Range(f) == {f[i] : i \in DOMAIN f}

IsPermutation(order) ==
  /\ DOMAIN order = 1..NumScenes
  /\ Range(order) = 0..(NumScenes - 1)

C19_InRange ==
  /\ NumScenes > 0
  /\ 0 <= scene_id /\ scene_id < NumScenes
  /\ IsPermutation(scene_order)
  /\ (IsInt(scene_period) /\ scene_period.num >= 1)
       => (0 <= scene_counter /\ scene_counter <= scene_period.num)

C19_ReturnedSceneInPool ==
  (last.op \in {"sample_scene", "next_task"} /\ last.scene # NoScene)
    => last.scene \in Range(scenes)

(***************************************************************************)
(* C19: in every state reached by next_task() calls (forced or not),       *)
(* sample_scene() calls and reset() calls on a sampler with a non-empty    *)
(* scenes list, 0 <= scene_id < len(scenes), scene_order is a permutation  *)
(* of the indices 0..len(scenes)-1 and, with a positive integer            *)
(* scene_period N, 0 <= scene_counter <= N; every scene sample_scene()     *)
(* returned is one of scenes.                                              *)
(***************************************************************************)
C19_RotationState == C19_InRange /\ C19_ReturnedSceneInPool

C19_Witness ==
  /\ IsInt(scene_period) /\ scene_period.num = MaxPeriod
  /\ scene_counter = scene_period.num
  /\ NumScenes = MaxScenes /\ scene_id = NumScenes - 1
  /\ last.op = "sample_scene" /\ last.force
  /\ last.scene = scenes[NumScenes]
  /\ hist.tasks > 0

\* a next_task() step that sampled a scene, readied the environment and
\* built a task
TaskBuilt ==
  /\ last'.op = "next_task"
  /\ hist'.samples = hist.samples + 1
  /\ last'.raised = "none"

\* the configured object types present in the sampled scene
PresentTargets == Range(object_types) \cap SceneObjectTypes(last'.scene)

C11_TargetStep ==
  TaskBuilt
    => /\ ("object_type" \in DOMAIN last'.task_info) <=> (PresentTargets # {})
       /\ ("object_type" \in DOMAIN last'.task_info)
            => last'.task_info.object_type \in PresentTargets
       /\ last'.noTarget <=> (PresentTargets = {})
       /\ last'.ret # NoTask
       /\ "start_pose" \in DOMAIN last'.task_info
       /\ BudgetCountedDown
       /\ last_sampled_task' = last'.ret
       /\ last_sampled_task' # last_sampled_task

(***************************************************************************)
(* C11: in next_task() of both samplers task_info has object_type exactly  *)
(* when one of the configured object_types is among the object types of    *)
(* the sampled scene, and its value is then in both sets; when none is     *)
(* there a warning is logged and the call still returns a task, with       *)
(* start_pose set, the budget counted down and last_sampled_task set to    *)
(* the new task.                                                           *)
(***************************************************************************)
C11_ObjectType == [][C11_TargetStep]_vars

C11_Witness ==
  /\ last.op = "next_task" /\ last.ret # NoTask /\ last.noTarget
  /\ "object_type" \notin DOMAIN last.task_info
  /\ "start_pose" \in DOMAIN last.task_info
  /\ last.scene = <<BaseNames[2]>> /\ object_types = <<"Apple", "Mug">>
  /\ last_sampled_task = last.ret /\ max_tasks = SomeInt(0)
  /\ hist.tasks = 2

ManipTaskReturned ==
  kind = "manip" /\ last.op = "next_task" /\ last.ret # NoTask

(***************************************************************************)
(* C12: after every next_task() of the manipulation sampler that returns   *)
(* a task the hand holds nothing: the call issued a drop action to the     *)
(* simulator and the environment's list of held objects is empty,          *)
(* whatever was held before the call.                                      *)
(***************************************************************************)
C12_EmptyHand ==
  ManipTaskReturned
    => /\ CountOf(last.envLog, "step_DropMidLevelHand") = 1
       /\ env.objects_in_hand = <<>>
       /\ env.hand = NoObject

C12_Witness ==
  /\ ManipTaskReturned
  /\ last.dropped # NoObject
  /\ env.hand = NoObject /\ env.objects_in_hand = <<>>
  /\ hist.tasks = 2

PlaceOf(log, call) == CHOOSE i \in 1..Len(log) : log[i] = call

ManipCallsInOrder(log) ==
  /\ \A c \in {"reset", "randomize_arm_pose", "step_DropMidLevelHand",
               "randomize_reachable_agent_location_given_object",
               "get_current_arm_coordinate"} : CountOf(log, c) = 1
  /\ PlaceOf(log, "reset") < PlaceOf(log, "randomize_arm_pose")
  /\ PlaceOf(log, "randomize_arm_pose")
       < PlaceOf(log, "step_DropMidLevelHand")
  /\ PlaceOf(log, "step_DropMidLevelHand")
       < PlaceOf(log, "randomize_reachable_agent_location_given_object")
  /\ PlaceOf(log, "randomize_reachable_agent_location_given_object")
       < PlaceOf(log, "get_current_arm_coordinate")
  /\ PlaceOf(log, "get_current_arm_coordinate") = Len(log)

C20_ManipStep ==
  (TaskBuilt /\ kind = "manip")
    => /\ ManipCallsInOrder(last'.envLog)
       /\ last'.ret # NoTask
       /\ last'.task_info.start_arm_pose =
            [call |-> "get_current_arm_coordinate",
             at |-> Len(last'.envLog)]
       /\ last'.task_info.start_arm_pose.at >
            PlaceOf(last'.envLog,
                    "randomize_reachable_agent_location_given_object")
       /\ last'.task_info.start_arm_pose.call # "randomize_arm_pose"

(***************************************************************************)
(* C20: in each successful next_task() of the manipulation sampler the     *)
(* environment calls come in this order: the scene is loaded, the arm      *)
(* pose is randomized, the held object is dropped, the agent is placed     *)
(* where the candidate object types can be reached, the arm coordinate is  *)
(* read again; the task is built after them all, and its start_arm_pose    *)
(* is the coordinate read after the placement, not the value the           *)
(* randomization of the arm pose returned.                                 *)
(***************************************************************************)
C20_ManipOrder == [][C20_ManipStep]_vars

C20_Witness ==
  /\ ManipTaskReturned
  /\ last.envLog = <<"reset", "randomize_arm_pose", "step_DropMidLevelHand",
                     "randomize_reachable_agent_location_given_object",
                     "get_current_arm_coordinate">>
  /\ last.task_info.start_arm_pose.at = 5
  /\ last.task_info.start_pose.at = 4
  /\ last.dropped # NoObject

\* getattr(instance, attr): the instance's own value, else the class's
InstanceValue(attr) ==
  IF instance_attrs[attr] # Unset THEN instance_attrs[attr]
  ELSE class_attrs[attr]

ExemptName(attr) == attr = AbstractMethods \/ StartsWith(attr, AbcPrefix)

C16_AssignStep ==
  /\ (assigned'.target = "class" /\ ~ExemptName(assigned'.attr))
       => /\ assigned'.raised = "RuntimeError"
          /\ class_attrs' = class_attrs
          /\ instance_attrs' = instance_attrs
  /\ (assigned'.target = "class" /\ ExemptName(assigned'.attr))
       => /\ assigned'.raised = "none"
          /\ class_attrs'[assigned'.attr] = assigned'.value
  /\ assigned'.target = "instance"
       => /\ assigned'.raised = "none"
          /\ instance_attrs'[assigned'.attr] = assigned'.value
          /\ class_attrs' = class_attrs

(***************************************************************************)
(* C16: an assignment to an attribute of an ExperimentConfig class raises  *)
(* RuntimeError and leaves the class attribute as it was, unless the name  *)
(* is __abstractmethods__ or starts with _abc_, and then it is assigned;   *)
(* the same assignment on an instance of the class succeeds, gives the     *)
(* instance the value and leaves the value of the class as it was.         *)
(***************************************************************************)
C16_FrozenClass == [][C16_AssignStep]_vars

C16_Witness ==
  /\ assigned.target = "class" /\ assigned.raised = "RuntimeError"
  /\ assigned.attr = <<"l", "r">> /\ assigned.value = "assigned"
  /\ class_attrs[assigned.attr] = "declared"
  /\ instance_attrs[assigned.attr] = "assigned"
  /\ InstanceValue(assigned.attr) = "assigned"
  /\ class_attrs[AbstractMethods] = "assigned"

SameSeed == ~seed.isNone /\ twin.seed = seed

HandleStopped == env.exists /\ env.stopped

\* the step is a next_task() call that works on the handle it found: no
\* other environment was constructed for it
SameHandleStep ==
  /\ last'.op = "next_task"
  /\ env'.exists /\ env'.id = env.id

(***************************************************************************)
(* C21: no environment operation (reset, randomization of the agent or of  *)
(* the arm, step) is issued on an environment handle after close() has     *)
(* stopped it: a next_task() call that follows close() does not operate    *)
(* on the stopped handle.                                                  *)
(***************************************************************************)
C21_NoCallOnStoppedHandle ==
  [][(HandleStopped /\ SameHandleStep) => last'.envLog = <<>>]_vars

====
